---- MODULE Spec2Model ----
(***************************************************************************)
(* A model of nvenv: the download of a Node.js release archive             *)
(* (src/download.js), the provisioning pipeline createEnvironment          *)
(* (src/env.js), the exposure of the installed executables                 *)
(* (createBinSymlinks / createSymlink) and the generated bash activation   *)
(* script.                                                                 *)
(*                                                                         *)
(* The module holds several state machines over one set of variables.     *)
(* Each specification drives one group of variables and leaves the other   *)
(* groups at their initial values.                                         *)
(***************************************************************************)
EXTENDS Integers, Sequences, FiniteSets, TLC

VARIABLES
    \* ---- downloadFile (src/download.js) ----
    depth,            \* index of the newest downloadFile invocation, -1 before the call
    destFile,         \* what the path destPath names on disk
    req,              \* req[d]: the https request of invocation d
    status,           \* status[d]: response.statusCode seen by invocation d (0: none)
    file,             \* file[d]: the write stream of invocation d
    promise,          \* promise[d]: the promise returned by invocation d
    totalBytes,       \* totalBytes[d]: declared content-length (0: header absent)
    downloadedBytes,  \* downloadedBytes[d]: body bytes received
    crashed,          \* an exception escaped an event callback (uncaught)
    \* ---- createEnvironment (src/env.js) ----
    platform,         \* process.platform of the host
    arch,             \* process.arch of the host
    now,              \* Date.now(), in steps
    envDirs,          \* envDirs[t]: which of <t>, <t>/bin, <t>/lib exist
    lib,              \* lib[t][v]: the directory <t>/lib/node-v<v>
    bin,              \* bin[t]: the entries of <t>/bin, by name
    nvenv,            \* nvenv[t]: the metadata file <t>/.nvenv
    tmpArchive,       \* tmpArchive[v]: <tmpdir>/node-v<v>-<platform>-<arch>.<ext>
    tmpExtract,       \* tmpExtract[ts]: <tmpdir>/nvenv-extract-<ts>
    pc,               \* pc[r]: where run r of createEnvironment stands
    run,              \* run[r]: the locals of run r
    metaWrites,       \* metaWrites[r]: writes of .nvenv made by run r
    \* ---- the shell that sources bin/activate ----
    PATH,
    PS1,
    NVENV,
    OLD_VIRTUAL_PATH,          \* _OLD_VIRTUAL_PATH
    OLD_VIRTUAL_PS1,           \* _OLD_VIRTUAL_PS1
    OLD_VIRTUAL_NVENV_PROMPT,  \* _OLD_VIRTUAL_NVENV_PROMPT
    deactivateDefined,         \* the function deactivate is defined
    sources,                   \* how many times an activate script was sourced
    before,                    \* PATH and _OLD_VIRTUAL_PATH before the newest sourcing
    \* ---- one call of a function of platform.js, extract.js or cli.js ----
    call,             \* the function called
    input,            \* its arguments, and what it reads of the process and the disk
    done,             \* the call has returned or thrown
    result            \* what it returned or threw, and what it did to the disk

dlVars == <<depth, destFile, req, status, file, promise, totalBytes,
            downloadedBytes, crashed>>

envVars == <<platform, arch, now, envDirs, lib, bin, nvenv, tmpArchive,
             tmpExtract, pc, run, metaWrites>>

shVars == <<PATH, PS1, NVENV, OLD_VIRTUAL_PATH, OLD_VIRTUAL_PS1,
            OLD_VIRTUAL_NVENV_PROMPT, deactivateDefined, sources, before>>

fnVars == <<call, input, done, result>>

vars == <<dlVars, envVars, shVars, fnVars>>

(***************************************************************************)
(* Bounds                                                                  *)
(***************************************************************************)
\* Redirects followed by one download.
MaxHops == 2

\* Bytes of a response body.
MaxBody == 2

\* Readings of Date.now() that differ.
MaxClock == 3

\* Times an activate script is sourced in one shell.
MaxSources == 3

\* Characters of a version string passed to getNodeDownloadInfo.
MaxVersionLen == 3

\* Entries of a directory passed to findNodeDirectory.
MaxEntries == 3

\* Command-line arguments passed to parseArgs.
MaxArgs == 3

(***************************************************************************)
(* A variable of the process environment or of the shell is UNSET or holds *)
(* a string; a string is the sequence of its parts, "" is <<>>.            *)
(***************************************************************************)
UNSET == [set |-> FALSE, val |-> <<>>]

Str(s) == [set |-> TRUE, val |-> s]

(***************************************************************************)
(* downloadFile                                                            *)
(*                                                                         *)
(* Environment (Node's https and fs modules):                              *)
(*  - fs.createWriteStream opens the path with flag 'w': the file is       *)
(*    created or truncated, or the open fails and the stream emits         *)
(*    'error'.  The open settles before any network event is delivered.    *)
(*  - https.get throws synchronously on a URL it cannot request (a         *)
(*    relative URL, a scheme other than https).                            *)
(*  - a request emits 'error' at most once, while it still owns its socket:*)
(*    before the response, while a 200 body is streaming, or after a       *)
(*    response whose body the callback never consumes (redirect, failure). *)
(*  - a response with a declared content-length emits 'end' only when that *)
(*    many bytes have arrived; a connection that closes early aborts the   *)
(*    response without 'end'.                                              *)
(*  - https.get(undefined, callback) does not throw: it takes the callback  *)
(*    for its options and requests https://localhost/ with no 'response'   *)
(*    listener; a response to it is discarded, a failure to connect is the *)
(*    request's 'error'.                                                   *)
(*  - unlinking removes the name only: a stream that still holds the file  *)
(*    open keeps writing to a file no path names.                          *)
(***************************************************************************)
Invocations == 0..MaxHops

Statuses == {200, 204, 301, 302, 404}

UrlKinds == {"https", "bad"}

\* response.headers.location of a redirect: a URL, or undefined when the
\* response carries no Location header.
Locations == UrlKinds \cup {"missing"}

Absent == [exists |-> FALSE, owner |-> -1, len |-> 0]
Stale == [exists |-> TRUE, owner |-> -1, len |-> 1]
Created(d) == [exists |-> TRUE, owner |-> d, len |-> 0]

Pending == [state |-> "pending", err |-> "", code |-> 0]
Resolved == [state |-> "resolved", err |-> "", code |-> 0]
Rejected(e, c) == [state |-> "rejected", err |-> e, code |-> c]

\* A promise settles once; `.then(resolve).catch(reject)` hands the outcome of
\* invocation d to invocation d-1, and so on up to the caller's promise.
Settle(pr, d, outcome) ==
    [k \in Invocations |->
        IF k <= d /\ \A j \in k..d : pr[j].state = "pending"
        THEN outcome ELSE pr[k]]

\* fs.unlinkSync guarded by fs.existsSync (the 'error' handlers).
UnlinkIfExists(df) == Absent

\* file.close() on a stream: a stream still open ends, flushes and emits
\* 'finish'; any other stream is left as it is.
CloseStream(s) == IF s = "open" THEN "ending" ELSE s

\* The promise executor of invocation d, run against the on-disk file df and
\* the promises pr.
ExecFile(d, openOk) == IF openOk THEN "open" ELSE "errored"

ExecDest(d, url, openOk, df) ==
    IF openOk THEN Created(d)
    ELSE IF url = "bad" THEN df
    ELSE UnlinkIfExists(df)

ExecReq(url) ==
    IF url = "bad" THEN "none"
    ELSE IF url = "missing" THEN "local"
    ELSE "sent"

\* The executor with a cap on the redirects it follows.
ExecPromiseCapped(d, url, openOk, pr) ==
    IF d >= MaxHops THEN Settle(pr, d, Rejected("ERR_TOO_MANY_REDIRECTS", 0))
    ELSE IF url = "bad" THEN Settle(pr, d, Rejected("ERR_INVALID_URL", 0))
    ELSE IF ~openOk THEN Settle(pr, d, Rejected("EACCES", 0))
    ELSE pr

ExecPromise(d, url, openOk, pr) ==
    IF url = "bad" THEN Settle(pr, d, Rejected("ERR_INVALID_URL", 0))
    ELSE IF ~openOk THEN Settle(pr, d, Rejected("EACCES", 0))
    ELSE pr

\* With https.get having thrown, no 'error' listener is on the stream: a failed
\* open is an unhandled 'error' event.
ExecCrash(url, openOk) == url = "bad" /\ ~openOk


DownloadFile(url, openOk) ==
    /\ depth = -1
    /\ ~crashed
    /\ depth' = 0
    /\ file' = [file EXCEPT ![0] = ExecFile(0, openOk)]
    /\ destFile' = ExecDest(0, url, openOk, destFile)
    /\ req' = [req EXCEPT ![0] = ExecReq(url)]
    /\ promise' = ExecPromise(0, url, openOk, promise)
    /\ crashed' = ExecCrash(url, openOk)
    /\ UNCHANGED <<status, totalBytes, downloadedBytes>>
    /\ UNCHANGED <<envVars, shVars, fnVars>>

\* The response callback, statusCode 301 or 302.
OnRedirect(d, st, loc, openOk) ==
    /\ ~crashed
    /\ req[d] = "sent"
    /\ st \in {301, 302}
    /\ d < MaxHops
    /\ status' = [status EXCEPT ![d] = st]
    /\ IF ~destFile.exists
       THEN \* fs.unlinkSync throws ENOENT inside the callback
            /\ crashed' = TRUE
            /\ req' = [req EXCEPT ![d] = "responded"]
            /\ file' = [file EXCEPT ![d] = "closed"]
            /\ UNCHANGED <<depth, destFile, promise>>
       ELSE /\ depth' = d + 1
            /\ file' = [file EXCEPT ![d] = "closed",
                                    ![d + 1] = ExecFile(d + 1, openOk)]
            /\ destFile' = ExecDest(d + 1, loc, openOk, Absent)
            /\ req' = [req EXCEPT ![d] = "responded", ![d + 1] = ExecReq(loc)]
            /\ promise' = ExecPromise(d + 1, loc, openOk, promise)
            /\ crashed' = ExecCrash(loc, openOk)
    /\ UNCHANGED <<totalBytes, downloadedBytes>>
    /\ UNCHANGED <<envVars, shVars, fnVars>>

\* What the callback does to the promise on a status that is neither a
\* redirect nor 200.
FailStatusNoCode(pr, d, st) == Settle(pr, d, Rejected("HTTP", 0))

FailStatus(pr, d, st) == Settle(pr, d, Rejected("HTTP", st))

\* The response callback, any other status than 200, 301, 302.
OnFailure(d, st) ==
    /\ ~crashed
    /\ req[d] = "sent"
    /\ st \notin {200, 301, 302}
    /\ status' = [status EXCEPT ![d] = st]
    /\ req' = [req EXCEPT ![d] = "responded"]
    /\ IF ~destFile.exists
       THEN \* fs.unlinkSync throws ENOENT inside the callback
            /\ crashed' = TRUE
            /\ file' = [file EXCEPT ![d] = "closed"]
            /\ UNCHANGED <<destFile, promise>>
       ELSE /\ file' = [file EXCEPT ![d] = "closed"]
            /\ destFile' = Absent
            /\ promise' = FailStatus(promise, d, st)
            /\ UNCHANGED crashed
    /\ UNCHANGED <<depth, totalBytes, downloadedBytes>>
    /\ UNCHANGED <<envVars, shVars, fnVars>>

\* The response callback, statusCode 200: content-length read, 'data' and
\* 'finish' listeners registered, response piped into the stream.
OnOk(d, total) ==
    /\ ~crashed
    /\ req[d] = "sent"
    /\ status' = [status EXCEPT ![d] = 200]
    /\ req' = [req EXCEPT ![d] = "streaming"]
    /\ totalBytes' = [totalBytes EXCEPT ![d] = total]
    /\ UNCHANGED <<depth, destFile, file, promise, downloadedBytes, crashed>>
    /\ UNCHANGED <<envVars, shVars, fnVars>>

\* A chunk of the body: the 'data' listener counts it, the pipe writes it.
OnData(d) ==
    /\ ~crashed
    /\ req[d] = "streaming"
    /\ downloadedBytes[d] < MaxBody
    /\ totalBytes[d] = 0 \/ downloadedBytes[d] < totalBytes[d]
    /\ downloadedBytes' = [downloadedBytes EXCEPT ![d] = @ + 1]
    /\ destFile' = IF file[d] = "open" /\ destFile.exists /\ destFile.owner = d
                   THEN [destFile EXCEPT !.len = @ + 1]
                   ELSE destFile
    /\ UNCHANGED <<depth, req, status, file, promise, totalBytes, crashed>>
    /\ UNCHANGED <<envVars, shVars, fnVars>>

\* The response ends: the pipe calls file.end().
OnEnd(d) ==
    /\ ~crashed
    /\ req[d] = "streaming"
    /\ totalBytes[d] = 0 \/ downloadedBytes[d] = totalBytes[d]
    /\ req' = [req EXCEPT ![d] = "ended"]
    /\ file' = [file EXCEPT ![d] = CloseStream(file[d])]
    /\ UNCHANGED <<depth, destFile, status, promise, totalBytes,
                   downloadedBytes, crashed>>
    /\ UNCHANGED <<envVars, shVars, fnVars>>

\* What the 'finish' listener does to the promise.
FinishPromise(pr, d) == Settle(pr, d, Resolved)

\* The stream's 'finish' listener (registered on the 200 path only).
OnFinish(d) ==
    /\ ~crashed
    /\ file[d] = "ending"
    /\ status[d] = 200
    /\ file' = [file EXCEPT ![d] = "closed"]
    /\ promise' = FinishPromise(promise, d)
    /\ UNCHANGED <<depth, destFile, req, status, totalBytes, downloadedBytes,
                   crashed>>
    /\ UNCHANGED <<envVars, shVars, fnVars>>

\* The connection closes before the declared body is complete, without a
\* socket error: the response is aborted; no listener of downloadFile runs.
OnAborted(d) ==
    /\ ~crashed
    /\ req[d] = "streaming"
    /\ totalBytes[d] # 0
    /\ downloadedBytes[d] < totalBytes[d]
    /\ req' = [req EXCEPT ![d] = "aborted"]
    /\ UNCHANGED <<depth, destFile, status, file, promise, totalBytes,
                   downloadedBytes, crashed>>
    /\ UNCHANGED <<envVars, shVars, fnVars>>

\* A response to the request made for an undefined URL: the request has no
\* 'response' listener, the response is discarded.
OnUnheard(d) ==
    /\ ~crashed
    /\ req[d] = "local"
    /\ req' = [req EXCEPT ![d] = "unheard"]
    /\ UNCHANGED <<depth, destFile, status, file, promise, totalBytes,
                   downloadedBytes, crashed>>
    /\ UNCHANGED <<envVars, shVars, fnVars>>

\* What the request's 'error' listener does to the promise.
ErrorPromiseResolves(pr, d) == Settle(pr, d, Resolved)

ErrorPromise(pr, d) == Settle(pr, d, Rejected("ECONNRESET", 0))

\* The request's 'error' listener.
OnRequestError(d) ==
    /\ ~crashed
    /\ req[d] \in {"sent", "local", "responded", "streaming"}
    /\ req' = [req EXCEPT ![d] = "errored"]
    /\ file' = [file EXCEPT ![d] = CloseStream(file[d])]
    /\ destFile' = UnlinkIfExists(destFile)
    /\ promise' = ErrorPromise(promise, d)
    /\ UNCHANGED <<depth, status, totalBytes, downloadedBytes, crashed>>
    /\ UNCHANGED <<envVars, shVars, fnVars>>

\* The stream's 'error' listener, on a failed write.
OnFileError(d) ==
    /\ ~crashed
    /\ file[d] \in {"open", "ending"}
    /\ downloadedBytes[d] > 0
    /\ file' = [file EXCEPT ![d] = "errored"]
    /\ destFile' = UnlinkIfExists(destFile)
    /\ promise' = Settle(promise, d, Rejected("ENOSPC", 0))
    /\ UNCHANGED <<depth, req, status, totalBytes, downloadedBytes, crashed>>
    /\ UNCHANGED <<envVars, shVars, fnVars>>

(***************************************************************************)
(* createEnvironment                                                       *)
(*                                                                         *)
(* Strings the code takes apart are sequences of their parts: a version    *)
(* "v1" is <<"v", "1">>, a file name "npm.cmd" is <<"npm", ".cmd">>.       *)
(***************************************************************************)
Targets == {"venvA", "venvB"}

Runs == {1, 2}

\* Version strings a caller passes as --node=<version>.
Versions == {<<"v", "1">>, <<"2">>}

\* Hosts: process.platform and process.arch.
Hosts == {<<"linux", "x64">>, <<"win32", "x64">>, <<"freebsd", "x64">>,
          <<"linux", "ia32">>, <<"freebsd", "ia32">>}

\* getPlatform: the platforms it returns rather than throws on.
SupportedPlatform(p) == p \in {"darwin", "linux", "win32"}

\* getArch: the keys of archMap.
SupportedArch(a) == a \in {"x64", "arm64"}

\* The error had getArch been called before getPlatform.
HostErrorArchFirst(p, a) ==
    IF ~SupportedArch(a) THEN "UnsupportedArchitecture"
    ELSE IF ~SupportedPlatform(p) THEN "UnsupportedPlatform"
    ELSE ""

\* getNodeDownloadInfo: getPlatform(), then getArch(); the error thrown, ""
\* when neither throws.
HostError(p, a) ==
    IF ~SupportedPlatform(p) THEN "UnsupportedPlatform"
    ELSE IF ~SupportedArch(a) THEN "UnsupportedArchitecture"
    ELSE ""

\* The gzip-compressed tar container on every platform.
GetExtensionAlwaysTar(p) == "tar.gz"

\* getExtension
GetExtension(p) == IF p = "win32" THEN "zip" ELSE "tar.gz"

\* The version string taken as it was passed.
NormalizeVersionKeepsV(version) == version

\* The first character dropped whatever it is.
NormalizeVersionDropsFirst(version) ==
    IF Len(version) > 0 THEN Tail(version) ELSE version

\* getNodeDownloadInfo: version.startsWith('v') ? version.slice(1) : version
NormalizeVersion(version) ==
    IF Len(version) > 0 /\ Head(version) = "v" THEN Tail(version) ELSE version

\* The platform identifier used as it is.
DistPlatformUnchanged(p) == p

\* getNodeDownloadInfo: platformMap
DistPlatform(p) == IF p = "win32" THEN "win" ELSE p

DefaultBase == <<"https://nodejs.org/dist">>

\* getNodeDownloadInfo: process.env.NVENV_MIRROR || 'https://nodejs.org/dist'
BaseUrl(mirror) ==
    IF mirror.set /\ mirror.val # <<>> THEN mirror.val ELSE DefaultBase

\* getNodeDownloadInfo: `node-v${normalizedVersion}-${distPlatform}-${arch}`
FileName(nv, p, a) == <<"node-", "v">> \o nv \o <<"-", DistPlatform(p), "-", a>>

\* getNodeDownloadInfo: `${baseUrl}/v${normalizedVersion}/${filename}.${ext}`
Url(base, nv, filename, ext) ==
    base \o <<"/", "v">> \o nv \o <<"/">> \o filename \o <<".", ext>>

\* getNodeDownloadInfo on a supported host p, a with NVENV_MIRROR = mirror.
DownloadInfo(version, p, a, mirror) ==
    LET nv == NormalizeVersion(version)
        filename == FileName(nv, p, a)
    IN [url |-> Url(BaseUrl(mirror), nv, filename, GetExtension(p)),
        filename |-> filename,
        extension |-> GetExtension(p),
        platform |-> p,
        arch |-> a,
        version |-> nv]

\* getNodeDownloadInfo as createEnvironment calls it, no mirror configured.
GetNodeDownloadInfo(version) == DownloadInfo(version, platform, arch, UNSET)

\* The version strings that name an install directory, a temporary archive
\* or an extracted directory.
VersionNames == Versions \cup {Tail(v) : v \in {w \in Versions : Head(w) = "v"}}

NoInfo == [url |-> <<>>, filename |-> <<>>, extension |-> "", platform |-> "",
           arch |-> "", version |-> <<>>]

\* The files of a release archive's executable directory (bin/ of the
\* installation, the installation root on win32), as the server ships them.
ArchiveFiles(v, p) ==
    IF p = "win32"
    THEN {<<"node", ".exe">>, <<"npm">>, <<"npm", ".cmd">>, <<"README", ".md">>,
          <<"node_modules">>}
    ELSE IF v = <<"2">>
    THEN {<<"node">>, <<"npm">>, <<"corepack">>}
    ELSE {<<"node">>, <<"npm">>}

\* A file some earlier user of the directory left in an install directory.
Stray == <<"stray">>

\* fs.statSync(sourcePath).isFile()
IsFile(name) == name # <<"node_modules">>

\* path.extname
ExtName(name) == IF Len(name) > 1 THEN name[Len(name)] ELSE ""

\* path.basename(file, ext)
BaseName(name, ext) ==
    IF ext # "" /\ ExtName(name) = ext THEN SubSeq(name, 1, Len(name) - 1)
    ELSE name

ExecutableExtensions == {".exe", ".cmd", ".bat", ".ps1"}

\* createBinSymlinks: the filter that follows the stat (files is the listing
\* of nodeBinDir).
IsExposed(name, files, p) ==
    /\ IsFile(name)
    /\ p = "win32" =>
          \/ ExtName(name) \in ExecutableExtensions
          \/ /\ ExtName(name) = ""
             /\ Append(BaseName(name, ExtName(name)), ".cmd") \in files

NoDir == [exists |-> FALSE, files |-> {}]
Dir(files) == [exists |-> TRUE, files |-> files]

NoFile == [exists |-> FALSE, version |-> <<>>, platform |-> "", arch |-> ""]

Symlink(v, name) == [kind |-> "symlink", ver |-> v, src |-> name]
Wrapper(v, name) == [kind |-> "wrapper", ver |-> v, src |-> name]
Script == [kind |-> "script", ver |-> <<>>, src |-> <<>>]

NoArchive == [exists |-> FALSE, owner |-> 0, state |-> "none"]
NoExtract == [exists |-> FALSE, dirs |-> {}]

\* The locals of a run; error: the error its promise rejected with; own:
\* whether that error came from a step of the run itself failing, and not
\* from what the run found in the temporary directory.
\* replaced: whether the run found lib/node-v<version> in place and removed it.
NoRun == [version |-> <<>>, envPath |-> "", info |-> NoInfo, extractDir |-> 0,
          error |-> "", own |-> FALSE, replaced |-> FALSE]

\* fs.existsSync on an entry of <t>/bin: a symbolic link is followed.
ExistsSync(b, l, link) ==
    /\ link \in DOMAIN b
    /\ b[link].kind = "symlink" =>
          /\ l[b[link].ver].exists
          /\ b[link].src \in l[b[link].ver].files

\* createSymlink: `if (fs.existsSync(link)) fs.unlinkSync(link)`
RemoveExisting(b, l, link) ==
    IF ExistsSync(b, l, link)
    THEN [n \in DOMAIN b \ {link} |-> b[n]]
    ELSE b

\* createSymlink: where the wrapper script goes when fs.symlinkSync throws.
WrapperPath(link, p) ==
    IF p = "win32" /\ ExtName(link) \notin ExecutableExtensions
    THEN Append(link, ".cmd")
    ELSE link

\* fs.writeFileSync on an entry of <t>/bin: a symbolic link already there is
\* written through, the entry stays the link.
WriteEntry(b, name, entry) ==
    IF name \in DOMAIN b /\ b[name].kind = "symlink" THEN b
    ELSE (name :> entry) @@ b

\* createSymlink(target, link): target is file `name` of lib/node-v<v>, link
\* is <t>/bin/<name>; canLink: whether this file system lets the process
\* create symbolic links.
CreateSymlink(b, l, v, name, p, canLink) ==
    LET b1 == RemoveExisting(b, l, name)
    IN IF canLink /\ name \notin DOMAIN b1
       THEN (name :> Symlink(v, name)) @@ b1
       ELSE WriteEntry(b1, WrapperPath(name, p), Wrapper(v, name))

\* createBinSymlinks: files.forEach over the listing `order` of nodeBinDir.
RECURSIVE CreateBinSymlinks(_, _, _, _, _, _, _)
CreateBinSymlinks(b, l, v, order, files, p, canLink) ==
    IF order = <<>> THEN b
    ELSE LET name == Head(order)
             b1 == IF IsExposed(name, files, p)
                   THEN CreateSymlink(b, l, v, name, p, canLink)
                   ELSE b
         IN CreateBinSymlinks(b1, l, v, Tail(order), files, p, canLink)

\* The orders in which fs.readdirSync may list a set of names.
RECURSIVE Listings(_)
Listings(S) ==
    IF S = {} THEN {<<>>}
    ELSE UNION {{<<x>> \o o : o \in Listings(S \ {x})} : x \in S}

\* createActivateScripts: bin/activate and bin/activate.fish.
CreateActivateScripts(b) ==
    WriteEntry(WriteEntry(b, <<"activate">>, Script),
               <<"activate", ".fish">>, Script)

\* saveMetadata: the record written to .nvenv (the timestamp left out).
SaveMetadata(info) ==
    [exists |-> TRUE, version |-> info.version, platform |-> info.platform,
     arch |-> info.arch]

\* The statements of createEnvironment with binary exposure and activation
\* scripts left out: the metadata is written right
\* after the install.
AfterInstallWritesMetadata(step) ==
    CASE step = "idle" -> "download"
      [] step = "download" -> "extract"
      [] step = "extract" -> "locate"
      [] step = "locate" -> "metadata"
      [] step = "expose" -> "scripts"
      [] step = "scripts" -> "metadata"
      [] step = "metadata" -> "cleanup"
      [] step = "cleanup" -> "resolved"

\* The statements of createEnvironment in their order: where a run stands
\* once the statement it stands at has completed.  "download": await
\* downloadFile; "extract": await extractArchive; "locate":
\* findNodeDirectory and the move into lib/; "expose": createBinSymlinks;
\* "scripts": createActivateScripts; "metadata": saveMetadata; "cleanup".
After(step) ==
    CASE step = "idle" -> "download"
      [] step = "download" -> "extract"
      [] step = "extract" -> "locate"
      [] step = "locate" -> "expose"
      [] step = "expose" -> "scripts"
      [] step = "scripts" -> "metadata"
      [] step = "metadata" -> "cleanup"
      [] step = "cleanup" -> "resolved"

Reject(r, e, own) ==
    /\ pc' = [pc EXCEPT ![r] = "rejected"]
    /\ run' = [run EXCEPT ![r].error = e, ![r].own = own]

\* A process is started and runs createEnvironment(version, envPath) up to
\* its first await: download info, createEnvStructure, and the call of
\* downloadFile, which opens the temporary archive for writing.  The clock
\* has advanced since any earlier process was started.
Begin(r, version, envPath) ==
    /\ pc[r] = "idle"
    /\ now < MaxClock
    /\ now' = now + 1
    /\ IF HostError(platform, arch) # ""
       THEN /\ pc' = [pc EXCEPT ![r] = "rejected"]
            /\ run' = [run EXCEPT ![r] =
                          [NoRun EXCEPT !.version = version,
                                        !.envPath = envPath,
                                        !.own = TRUE,
                                        !.error = HostError(platform, arch)]]
            /\ UNCHANGED <<envDirs, tmpArchive>>
       ELSE LET info == GetNodeDownloadInfo(version)
            IN /\ pc' = [pc EXCEPT ![r] = After("idle")]
               /\ run' = [run EXCEPT ![r] =
                             [NoRun EXCEPT !.version = version,
                                           !.envPath = envPath,
                                           !.info = info]]
               /\ envDirs' = [envDirs EXCEPT ![envPath] = {"root", "bin", "lib"}]
               /\ tmpArchive' = [tmpArchive EXCEPT ![info.version] =
                                    [exists |-> TRUE, owner |-> r,
                                     state |-> "partial"]]
    /\ UNCHANGED <<platform, arch, lib, bin, nvenv, tmpExtract, metaWrites>>
    /\ UNCHANGED <<dlVars, shVars, fnVars>>

\* A build starts while no other is running.
BeginAlone(r, version, envPath) ==
    /\ \A o \in Runs \ {r} : pc[o] = IF o < r THEN "exited" ELSE "idle"
    /\ Begin(r, version, envPath)

\* A build starts beside the builds that are running, into another target.
BeginBeside(r, version, envPath) ==
    /\ \A o \in Runs \ {r} : pc[o] \notin {"idle", "exited"} =>
                                 run[o].envPath # envPath
    /\ Begin(r, version, envPath)

\* `await downloadFile(...)` resolves: the body has been written through this
\* run's stream.
DownloadResolved(r) ==
    /\ pc[r] = "download"
    /\ LET v == run[r].info.version
       IN tmpArchive' = [tmpArchive EXCEPT ![v] =
                            IF @.exists /\ @.owner = r
                            THEN [@ EXCEPT !.state = "full"]
                            ELSE @]
    /\ pc' = [pc EXCEPT ![r] = After("download")]
    /\ UNCHANGED <<platform, arch, now, envDirs, lib, bin, nvenv, tmpExtract,
                   run, metaWrites>>
    /\ UNCHANGED <<dlVars, shVars, fnVars>>

\* `await downloadFile(...)` rejects; cleaned: whether the rejecting handler
\* removed the file at the archive path.
DownloadRejected(r, cleaned) ==
    /\ pc[r] = "download"
    /\ LET v == run[r].info.version
       IN tmpArchive' = IF cleaned
                        THEN [tmpArchive EXCEPT ![v] = NoArchive]
                        ELSE tmpArchive
    /\ Reject(r, "DownloadFailed", TRUE)
    /\ UNCHANGED <<platform, arch, now, envDirs, lib, bin, nvenv, tmpExtract,
                   metaWrites>>
    /\ UNCHANGED <<dlVars, shVars, fnVars>>

\* extractDir = nvenv-extract-<Date.now()>; await extractArchive(...).
\* tick: whether the clock has advanced since it was last read; toolOk:
\* whether the external tar / unzip / Expand-Archive exits with 0 on a
\* complete archive.
ExtractArchive(r, tick, toolOk) ==
    /\ pc[r] = "extract"
    /\ tick => now < MaxClock
    /\ now' = IF tick THEN now + 1 ELSE now
    /\ LET v == run[r].info.version
           ts == now'
       IN IF ~tmpArchive[v].exists
          THEN /\ Reject(r, "ArchiveNotFound", FALSE)
               /\ UNCHANGED tmpExtract
          ELSE IF tmpArchive[v].state = "full" /\ toolOk
          THEN /\ tmpExtract' = [tmpExtract EXCEPT ![ts] =
                                    [exists |-> TRUE, dirs |-> @.dirs \cup {v}]]
               /\ pc' = [pc EXCEPT ![r] = After("extract")]
               /\ run' = [run EXCEPT ![r].extractDir = ts]
          ELSE /\ tmpExtract' = [tmpExtract EXCEPT ![ts].exists = TRUE]
               /\ pc' = [pc EXCEPT ![r] = "rejected"]
               /\ run' = [run EXCEPT ![r].extractDir = ts,
                                     ![r].error = "ExtractionFailed",
                                     ![r].own = ~toolOk]
    /\ UNCHANGED <<platform, arch, envDirs, lib, bin, nvenv, tmpArchive,
                   metaWrites>>
    /\ UNCHANGED <<dlVars, shVars, fnVars>>

\* The install directory had the copy been made over what was there.
InstallDirMerged(old, files) == Dir(old.files \cup files)

\* The install directory after `if (existsSync(libPath)) rmSync(libPath)`
\* and `cpSync(nodeDir, libPath)`.
InstallDir(old, files) == Dir(files)

\* findNodeDirectory, then the move into lib/: remove an existing install
\* directory, copy the located directory, remove the located directory.
\* copyOk: whether fs.cpSync completes.
Install(r, nodeDir, copyOk) ==
    /\ pc[r] = "locate"
    /\ LET v == run[r].info.version
           t == run[r].envPath
           ts == run[r].extractDir
       IN IF ~tmpExtract[ts].exists \/ tmpExtract[ts].dirs = {}
          THEN /\ nodeDir = v
               /\ copyOk
               /\ Reject(r, "InstallDirectoryNotFound", FALSE)
               /\ UNCHANGED <<lib, tmpExtract>>
          ELSE /\ nodeDir \in tmpExtract[ts].dirs
               /\ IF copyOk
                  THEN /\ lib' = [lib EXCEPT ![t][v] =
                                     InstallDir(@, ArchiveFiles(nodeDir, platform))]
                       /\ tmpExtract' = [tmpExtract EXCEPT ![ts].dirs =
                                            @ \ {nodeDir}]
                       /\ pc' = [pc EXCEPT ![r] = After("locate")]
                       /\ run' = [run EXCEPT ![r].replaced = lib[t][v].exists]
                  ELSE /\ lib' = [lib EXCEPT ![t][v] = NoDir]
                       /\ Reject(r, "CopyFailed", TRUE)
                       /\ UNCHANGED tmpExtract
    /\ UNCHANGED <<platform, arch, now, envDirs, bin, nvenv, tmpArchive,
                   metaWrites>>
    /\ UNCHANGED <<dlVars, shVars, fnVars>>

\* createBinSymlinks(envPath, libPath); the listing order is the file
\* system's choice.
Expose(r, canLink) ==
    /\ pc[r] = "expose"
    /\ LET v == run[r].info.version
           t == run[r].envPath
           files == lib[t][v].files
       IN \E b \in {CreateBinSymlinks(bin[t], lib[t], v, order, files, platform,
                                      canLink) : order \in Listings(files)} :
             bin' = [bin EXCEPT ![t] = b]
    /\ pc' = [pc EXCEPT ![r] = After("expose")]
    /\ UNCHANGED <<platform, arch, now, envDirs, lib, nvenv, tmpArchive,
                   tmpExtract, run, metaWrites>>
    /\ UNCHANGED <<dlVars, shVars, fnVars>>

\* createActivateScripts(envPath).
WriteScripts(r) ==
    /\ pc[r] = "scripts"
    /\ bin' = [bin EXCEPT ![run[r].envPath] = CreateActivateScripts(@)]
    /\ pc' = [pc EXCEPT ![r] = After("scripts")]
    /\ UNCHANGED <<platform, arch, now, envDirs, lib, nvenv, tmpArchive,
                   tmpExtract, run, metaWrites>>
    /\ UNCHANGED <<dlVars, shVars, fnVars>>

\* saveMetadata(envPath, downloadInfo).
WriteMetadata(r) ==
    /\ pc[r] = "metadata"
    /\ nvenv' = [nvenv EXCEPT ![run[r].envPath] = SaveMetadata(run[r].info)]
    /\ metaWrites' = [metaWrites EXCEPT ![r] = @ + 1]
    /\ pc' = [pc EXCEPT ![r] = After("metadata")]
    /\ UNCHANGED <<platform, arch, now, envDirs, lib, bin, tmpArchive,
                   tmpExtract, run>>
    /\ UNCHANGED <<dlVars, shVars, fnVars>>

\* fs.unlinkSync(archivePath); fs.rmSync(extractDir, {recursive, force}).
\* unlinkOk: whether the operating system lets the archive be removed.
Cleanup(r, unlinkOk) ==
    /\ pc[r] = "cleanup"
    /\ LET v == run[r].info.version
           t == run[r].envPath
           ts == run[r].extractDir
       IN IF ~tmpArchive[v].exists \/ ~unlinkOk
          THEN /\ Reject(r, IF tmpArchive[v].exists THEN "EPERM" ELSE "ENOENT",
                         tmpArchive[v].exists)
               /\ UNCHANGED <<tmpArchive, tmpExtract>>
          ELSE /\ tmpArchive' = [tmpArchive EXCEPT ![v] = NoArchive]
               /\ tmpExtract' = [tmpExtract EXCEPT ![ts] = NoExtract]
               /\ pc' = [pc EXCEPT ![r] = After("cleanup")]
               /\ UNCHANGED run
    /\ UNCHANGED <<platform, arch, now, envDirs, lib, bin, nvenv, metaWrites>>
    /\ UNCHANGED <<dlVars, shVars, fnVars>>

\* A step between the extraction and the cleanup throws (a file-system
\* operation fails): the promise of createEnvironment rejects there.
StepThrows(r) ==
    /\ pc[r] \in {"expose", "scripts", "metadata"}
    /\ Reject(r, "EIO", TRUE)
    /\ UNCHANGED <<platform, arch, now, envDirs, lib, bin, nvenv, tmpArchive,
                   tmpExtract, metaWrites>>
    /\ UNCHANGED <<dlVars, shVars, fnVars>>

\* main: the promise of createEnvironment has settled and the process exits.
Exit(r) ==
    /\ pc[r] \in {"resolved", "rejected"}
    /\ pc' = [pc EXCEPT ![r] = "exited"]
    /\ run' = [run EXCEPT ![r] = NoRun]
    /\ UNCHANGED <<platform, arch, now, envDirs, lib, bin, nvenv, tmpArchive,
                   tmpExtract, metaWrites>>
    /\ UNCHANGED <<dlVars, shVars, fnVars>>

(***************************************************************************)
(* The bash activation script (generateActivateScript, shell = 'bash')     *)
(*                                                                         *)
(* A shell variable is UNSET or holds a string; a string is the sequence   *)
(* of its parts, "" is <<>>.  BinOf(t) is the part "<t>/bin", ":" the      *)
(* separator.                                                              *)
(***************************************************************************)
\* path.join(envPath, 'bin')
BinOf(t) == IF t = "venvA" THEN "venvA/bin" ELSE "venvB/bin"

\* [ -n "${X:-}" ]
NonEmpty(x) == x.set /\ x.val # <<>>

\* X="$Y"
Expand(x) == Str(x.val)

\* Values of PATH a shell has before any nvenv script is sourced.
PathValues == {<<>>, <<"/usr/bin">>, <<"/usr/bin", ":", "/bin">>}

\* Another virtual environment that keeps its saved PATH in the same
\* variable (the activate script of Python's venv does) is active.
PyBin == "/opt/py/bin"

PromptValues == {<<>>, <<"$ ">>}

\* deactivate: PATH
DeactivatePath(p, old) == IF NonEmpty(old) THEN old ELSE p

\* deactivate: _OLD_VIRTUAL_PATH
DeactivateOld(old) == IF NonEmpty(old) THEN UNSET ELSE old

\* deactivate: PS1, restored from _OLD_VIRTUAL_PS1 and then from
\* _OLD_VIRTUAL_NVENV_PROMPT.
DeactivatePrompt(p, oldPs1, oldPrompt) ==
    IF NonEmpty(oldPrompt) THEN oldPrompt
    ELSE IF NonEmpty(oldPs1) THEN oldPs1
    ELSE p

\* PATH="<t>/bin:$PATH"
PrependBin(t, p) == Str(<<BinOf(t), ":">> \o p.val)

\* PS1="(nvenv) $PS1"
PrefixPrompt(p) == Str(<<"(nvenv) ">> \o p.val)

\* `source <t>/bin/activate`
Source(t) ==
    /\ sources < MaxSources
    /\ sources' = sources + 1
    /\ LET p1 == DeactivatePath(PATH, OLD_VIRTUAL_PATH)
           s1 == DeactivatePrompt(PS1, OLD_VIRTUAL_PS1, OLD_VIRTUAL_NVENV_PROMPT)
       IN /\ NVENV' = Str(<<t>>)
          /\ OLD_VIRTUAL_PATH' = Expand(p1)
          /\ PATH' = PrependBin(t, p1)
          /\ OLD_VIRTUAL_PS1' = DeactivateOld(OLD_VIRTUAL_PS1)
          /\ OLD_VIRTUAL_NVENV_PROMPT' = Expand(s1)
          /\ PS1' = PrefixPrompt(s1)
    /\ deactivateDefined' = TRUE
    /\ before' = [path |-> PATH, old |-> OLD_VIRTUAL_PATH]
    /\ UNCHANGED <<dlVars, envVars, fnVars>>

\* `deactivate`
Deactivate ==
    /\ deactivateDefined
    /\ PATH' = DeactivatePath(PATH, OLD_VIRTUAL_PATH)
    /\ OLD_VIRTUAL_PATH' = DeactivateOld(OLD_VIRTUAL_PATH)
    /\ PS1' = DeactivatePrompt(PS1, OLD_VIRTUAL_PS1, OLD_VIRTUAL_NVENV_PROMPT)
    /\ OLD_VIRTUAL_PS1' = DeactivateOld(OLD_VIRTUAL_PS1)
    /\ OLD_VIRTUAL_NVENV_PROMPT' = DeactivateOld(OLD_VIRTUAL_NVENV_PROMPT)
    /\ NVENV' = UNSET
    /\ deactivateDefined' = FALSE
    /\ UNCHANGED <<sources, before>>
    /\ UNCHANGED <<dlVars, envVars, fnVars>>

(***************************************************************************)
(* The fish activation script (generateActivateScript, shell = 'fish')     *)
(*                                                                         *)
(* The fish shell is the record `result`: its variables (PATH is a list of *)
(* directories), which function fish_prompt and _old_fish_prompt are       *)
(* ("original": the prompt the shell came with, "override": the one the    *)
(* script defines, "none": not defined), and whether deactivate is         *)
(* defined.  `input` is the environment the shell was started in.  The     *)
(* record also keeps how many times a script was sourced, how many times   *)
(* since deactivate was last called, PATH before the newest sourcing, and  *)
(* whether deactivate was last called with nondestructive.                 *)
(*  - `test -n "$X"` is false for a variable that is unset or empty.       *)
(*  - `functions -c a b` fails and changes nothing when a is not defined   *)
(*    or b is defined already.                                             *)
(***************************************************************************)
\* Values of PATH a fish shell is started with.
FishPaths == {<<>>, <<"/usr/bin">>, <<"/usr/bin", "/bin">>}

\* VIRTUAL_ENV as the shell inherits it: unset, or exported by a Python
\* environment active in the parent process.
VirtualEnvs == {UNSET, Str(<<"/opt/py">>)}

\* A fish shell in which no activation script has been sourced.
FishShell(path, venv) ==
    [PATH |-> Str(path), NVENV |-> UNSET, VIRTUAL_ENV |-> venv,
     OLD_VIRTUAL_PATH |-> UNSET, OLD_FISH_PROMPT_OVERRIDE |-> UNSET,
     fish_prompt |-> "original", old_fish_prompt |-> "none",
     deactivate |-> FALSE,
     sourced |-> 0, inRow |-> 0, pathBefore |-> Str(path), kept |-> FALSE]

\* functions -c from to: what `to` is afterwards.
CopyFunction(from, to) == IF from = "none" \/ to # "none" THEN to ELSE from

\* set -gx _OLD_FISH_PROMPT_OVERRIDE "$VIRTUAL_ENV"
PromptOverride(sh) == Str(sh.VIRTUAL_ENV.val)

\* The function deactivate of activate.fish.
FishDeactivate(sh, nondestructive) ==
    LET restorePath == NonEmpty(sh.OLD_VIRTUAL_PATH)
        restorePrompt == NonEmpty(sh.OLD_FISH_PROMPT_OVERRIDE)
    IN [sh EXCEPT
           !.PATH = IF restorePath THEN Str(sh.OLD_VIRTUAL_PATH.val) ELSE @,
           !.OLD_VIRTUAL_PATH = IF restorePath THEN UNSET ELSE @,
           !.fish_prompt = IF restorePrompt
                           THEN CopyFunction(sh.old_fish_prompt, "none")
                           ELSE @,
           !.old_fish_prompt = IF restorePrompt THEN "none" ELSE @,
           !.OLD_FISH_PROMPT_OVERRIDE = IF restorePrompt THEN UNSET ELSE @,
           !.NVENV = UNSET,
           !.deactivate = IF nondestructive THEN @ ELSE FALSE]

\* `source <t>/bin/activate.fish`
FishActivate(sh, t) ==
    LET d == FishDeactivate([sh EXCEPT !.deactivate = TRUE], TRUE)
        a == [d EXCEPT !.NVENV = Str(<<t>>),
                       !.OLD_VIRTUAL_PATH = Str(d.PATH.val),
                       !.PATH = Str(<<BinOf(t)>> \o d.PATH.val),
                       !.old_fish_prompt = CopyFunction(d.fish_prompt, @),
                       !.fish_prompt = "override"]
    IN [a EXCEPT !.OLD_FISH_PROMPT_OVERRIDE = PromptOverride(a)]

\* The user sources <t>/bin/activate.fish.
FishSource(t) ==
    /\ call = "fish"
    /\ result.sourced < MaxSources
    /\ result' = [FishActivate(result, t) EXCEPT
                     !.sourced = result.sourced + 1,
                     !.inRow = result.inRow + 1,
                     !.pathBefore = result.PATH]
    /\ UNCHANGED <<call, input, done>>
    /\ UNCHANGED <<dlVars, envVars, shVars>>

\* The user calls deactivate, with or without the argument nondestructive.
FishCallDeactivate(nondestructive) ==
    /\ call = "fish"
    /\ result.deactivate
    /\ result' = [FishDeactivate(result, nondestructive) EXCEPT
                     !.inRow = 0, !.kept = nondestructive]
    /\ UNCHANGED <<call, input, done>>
    /\ UNCHANGED <<dlVars, envVars, shVars>>

(***************************************************************************)
(* Single calls of getNodeDownloadInfo, extractArchive, findNodeDirectory  *)
(* and parseArgs                                                           *)
(***************************************************************************)
\* Hosts a call may run on: process.platform and process.arch.
CallHosts == {"darwin", "linux", "win32", "freebsd"} \X {"x64", "arm64", "ia32"}

\* Values of NVENV_MIRROR.
Mirrors == {UNSET, Str(<<>>), Str(<<"https://mirror.example/node">>),
            Str(<<"https://mirror.example/", "1">>)}

VersionChars == {"v", "1", "8"}

\* Version strings of at most MaxVersionLen characters.
VersionStrings == UNION {[1..n -> VersionChars] : n \in 0..MaxVersionLen}

InfoInput ==
    /\ call = "getNodeDownloadInfo"
    /\ \E h \in CallHosts : platform = h[1] /\ arch = h[2]
    /\ \E version \in VersionStrings, mirror \in Mirrors :
          input = [version |-> version, mirror |-> mirror]

\* getNodeDownloadInfo(version)
CallGetNodeDownloadInfo ==
    /\ call = "getNodeDownloadInfo"
    /\ ~done
    /\ done' = TRUE
    /\ result' = IF HostError(platform, arch) # ""
                 THEN [error |-> HostError(platform, arch), info |-> NoInfo]
                 ELSE [error |-> "",
                       info |-> DownloadInfo(input.version, platform, arch,
                                             input.mirror)]
    /\ UNCHANGED <<call, input>>
    /\ UNCHANGED <<dlVars, envVars, shVars>>

\* Archive paths: the file name as its parts, "node.tar.gz" is
\* <<"node", ".tar", ".gz">>.
ArchiveNames == {<<"node", ".tar", ".gz">>, <<"node", ".gz">>, <<"node", ".zip">>,
                 <<"node", ".rar">>, <<"node">>}

ExtractInput ==
    /\ call = "extractArchive"
    /\ platform \in {"linux", "win32"}
    /\ arch = "x64"
    /\ \E exists \in BOOLEAN, name \in ArchiveNames, destExists \in BOOLEAN,
          toolOk \in BOOLEAN :
          input = [archive |-> [exists |-> exists, name |-> name],
                   destExists |-> destExists, toolOk |-> toolOk]

\* The destination directory made before the archive is looked for.
MakesDestinationFirst(archive, destExists) == ~destExists

\* extractArchive: whether it comes to `fs.mkdirSync(destDir)`.
MakesDestination(archive, destExists) == archive.exists /\ ~destExists

\* extractArchive: the external utility the extension selects, "none" when
\* it selects none.
ExtractionTool(name, p) ==
    IF ExtName(name) = ".gz" THEN "tar"
    ELSE IF ExtName(name) = ".zip"
    THEN IF p = "win32" THEN "powershell" ELSE "unzip"
    ELSE "none"

\* extractArchive(archivePath, destDir): the message of the error thrown
\* (<<>> when none), whether the destination directory was made, the utility
\* run.  toolOk: whether the utility exits with 0.
ExtractOutcome(archive, destExists, p, toolOk) ==
    LET tool == ExtractionTool(archive.name, p)
        mkdir == MakesDestination(archive, destExists)
    IN IF ~archive.exists
       THEN [message |-> <<"Archive file not found: ", archive.name>>,
             mkdir |-> mkdir, tool |-> "none"]
       ELSE IF tool = "none"
       THEN [message |-> <<"Failed to extract archive: ",
                           "Unsupported archive format: ", ExtName(archive.name)>>,
             mkdir |-> mkdir, tool |-> "none"]
       ELSE IF ~toolOk
       THEN [message |-> <<"Failed to extract archive: ", "Command failed">>,
             mkdir |-> mkdir, tool |-> tool]
       ELSE [message |-> <<>>, mkdir |-> mkdir, tool |-> tool]

\* extractArchive(archivePath, destDir)
CallExtractArchive ==
    /\ call = "extractArchive"
    /\ ~done
    /\ done' = TRUE
    /\ result' = ExtractOutcome(input.archive, input.destExists, platform,
                                input.toolOk)
    /\ UNCHANGED <<call, input>>
    /\ UNCHANGED <<dlVars, envVars, shVars>>

\* Names of directory entries, as their parts.
EntryNames == {<<"node-v", "1">>, <<"node-v", "2">>, <<"other">>}

Entries == [name : EntryNames, kind : {"dir", "file"}]

\* The listings fs.readdirSync may return: sequences of entries with
\* different names.
DirListings ==
    UNION {{l \in [1..n -> Entries] :
               \A i, j \in 1..n : i # j => l[i].name # l[j].name}
           : n \in 0..MaxEntries}

FindInput ==
    /\ call = "findNodeDirectory"
    /\ platform = "linux"
    /\ arch = "x64"
    /\ \E entries \in DirListings : input = [entries |-> entries]

\* An entry taken by its name alone.
MatchesByName(entry) == Head(entry.name) = "node-v"

\* findNodeDirectory: the predicate of entries.find
Matches(entry) == entry.kind = "dir" /\ Head(entry.name) = "node-v"

\* findNodeDirectory(extractDir), on the listing of extractDir.
FindNodeDirectory(entries) ==
    LET found == {i \in 1..Len(entries) : Matches(entries[i])}
    IN IF found = {}
       THEN [error |-> "InstallDirectoryNotFound", dir |-> <<>>]
       ELSE [error |-> "",
             dir |-> entries[CHOOSE i \in found : \A j \in found : i <= j].name]

\* findNodeDirectory(extractDir)
CallFindNodeDirectory ==
    /\ call = "findNodeDirectory"
    /\ ~done
    /\ done' = TRUE
    /\ result' = FindNodeDirectory(input.entries)
    /\ UNCHANGED <<call, input>>
    /\ UNCHANGED <<dlVars, envVars, shVars>>

\* A command-line argument: the text before its first "=" (all of it when
\* it holds none), whether it holds a "=", and the pieces that the further
\* "=" cut the rest into: "--node=1=8" has the pieces <<"1">> and <<"8">>.
Word(w) == [head |-> w, eq |-> FALSE, value |-> <<>>]

NodeArg(pieces) == [head |-> "--node", eq |-> TRUE, value |-> pieces]

ArgValues == {Word("-h"), Word("--help"), Word("-s"), Word("--unknown"),
              Word("--node"), Word("venvA"), Word("venvB"),
              NodeArg(<<<<"v", "1">>>>), NodeArg(<<<<"2">>>>),
              NodeArg(<<<<"1">>, <<"8">>>>)}

ArgLists == UNION {[1..n -> ArgValues] : n \in 0..MaxArgs}

ParseInput ==
    /\ call = "parseArgs"
    /\ platform = "linux"
    /\ arch = "x64"
    /\ \E args \in ArgLists : input = [args |-> args]

\* arg.startsWith('-')
StartsWithDash(w) == w \in {"-h", "--help", "-s", "--silent", "--unknown", "--node"}

\* parseArgs: arg.split('=')[1]
NodeValue(arg) == arg.value[1]

\* parseArgs: the body of its loop.
ParseArg(parsed, arg) ==
    IF ~arg.eq /\ arg.head \in {"-h", "--help"}
    THEN [parsed EXCEPT !.help = TRUE]
    ELSE IF ~arg.eq /\ arg.head \in {"--silent", "-s"}
    THEN [parsed EXCEPT !.silent = TRUE]
    ELSE IF arg.eq /\ arg.head = "--node"
    THEN [parsed EXCEPT !.version = Str(NodeValue(arg))]
    ELSE IF ~StartsWithDash(arg.head)
    THEN [parsed EXCEPT !.envPath = Str(<<arg.head>>)]
    ELSE parsed

\* parseArgs(args); null is UNSET.
RECURSIVE ParseFrom(_, _)
ParseFrom(parsed, args) ==
    IF args = <<>> THEN parsed
    ELSE ParseFrom(ParseArg(parsed, Head(args)), Tail(args))

ParseArgs(args) ==
    ParseFrom([version |-> UNSET, envPath |-> UNSET, help |-> FALSE,
               silent |-> FALSE], args)

\* parseArgs(args)
CallParseArgs ==
    /\ call = "parseArgs"
    /\ ~done
    /\ done' = TRUE
    /\ result' = ParseArgs(input.args)
    /\ UNCHANGED <<call, input>>
    /\ UNCHANGED <<dlVars, envVars, shVars>>

\* What bin/ may hold at a path before createSymlink is called: nothing, or
\* an entry an earlier build of version 1 made for the source `src`.
EarlierEntries(src) == {<<>>, <<Symlink(<<"1">>, src)>>, <<Wrapper(<<"1">>, src)>>}

\* bin/ holding the entries e1 at path n1 and e2 at path n2 (<<>>: none).
BinWith(n1, e1, n2, e2) ==
    [n \in (IF e1 = <<>> THEN {} ELSE {n1}) \cup (IF e2 = <<>> THEN {} ELSE {n2})
        |-> IF n = n1 /\ e1 # <<>> THEN e1[1] ELSE e2[1]]

\* lib/ holding the install directory of version 2, whose executable is being
\* exposed, and `old` as the install directory of version 1.
LibWith(old) ==
    [w \in VersionNames |->
        IF w = <<"2">> THEN Dir({<<"npm">>, <<"npm", ".cmd">>})
        ELSE IF w = <<"1">> THEN old
        ELSE NoDir]

SymlinkInput ==
    /\ call = "createSymlink"
    /\ platform \in {"linux", "win32"}
    /\ arch = "x64"
    /\ \E name \in {<<"npm">>, <<"npm", ".cmd">>},
          e1 \in EarlierEntries(<<"npm">>),
          e2 \in EarlierEntries(<<"npm", ".cmd">>),
          old \in {NoDir, Dir({<<"npm">>, <<"npm", ".cmd">>})},
          canLink \in BOOLEAN :
          input = [name |-> name,
                   version |-> <<"2">>,
                   bin |-> BinWith(<<"npm">>, e1, <<"npm", ".cmd">>, e2),
                   lib |-> LibWith(old),
                   canLink |-> canLink]

\* createSymlink: whether fs.symlinkSync throws (EPERM where the process may
\* not link, EEXIST where the path still names something).
SymlinkThrows(b, l, name, canLink) ==
    ~canLink \/ name \in DOMAIN RemoveExisting(b, l, name)

\* createSymlink: whether fs.writeFileSync in the catch block throws: the
\* wrapper path names a symbolic link into a directory that is gone (ENOENT).
WrapperThrows(b, l, name, p, canLink) ==
    LET b1 == RemoveExisting(b, l, name)
        w == WrapperPath(name, p)
    IN /\ SymlinkThrows(b, l, name, canLink)
       /\ w \in DOMAIN b1
       /\ b1[w].kind = "symlink"
       /\ ~l[b1[w].ver].exists

\* createSymlink: the mode given to the wrapper by fs.chmodSync, "" where it
\* is not called.
WrapperMode(p) == IF p # "win32" THEN "0755" ELSE ""

\* createSymlink(target, link)
CallCreateSymlink ==
    /\ call = "createSymlink"
    /\ ~done
    /\ done' = TRUE
    /\ result' =
          [bin |-> CreateSymlink(input.bin, input.lib, input.version,
                                 input.name, platform, input.canLink),
           linkFailed |-> SymlinkThrows(input.bin, input.lib, input.name,
                                        input.canLink),
           threw |-> WrapperThrows(input.bin, input.lib, input.name, platform,
                                   input.canLink),
           mode |-> IF /\ SymlinkThrows(input.bin, input.lib, input.name,
                                        input.canLink)
                       /\ ~WrapperThrows(input.bin, input.lib, input.name,
                                         platform, input.canLink)
                    THEN WrapperMode(platform) ELSE ""]
    /\ UNCHANGED <<call, input>>
    /\ UNCHANGED <<dlVars, envVars, shVars>>

(***************************************************************************)
(* Specifications                                                          *)
(***************************************************************************)
\* downloadFile has not been called.
DlIdle ==
    /\ depth = -1
    /\ req = [d \in Invocations |-> "none"]
    /\ status = [d \in Invocations |-> 0]
    /\ file = [d \in Invocations |-> "none"]
    /\ promise = [d \in Invocations |-> Pending]
    /\ totalBytes = [d \in Invocations |-> 0]
    /\ downloadedBytes = [d \in Invocations |-> 0]
    /\ crashed = FALSE

\* No build has run on this host.
EnvIdle ==
    /\ now = 0
    /\ envDirs = [t \in Targets |-> {}]
    /\ tmpArchive = [v \in VersionNames |-> NoArchive]
    /\ tmpExtract = [ts \in 0..MaxClock |-> NoExtract]
    /\ pc = [r \in Runs |-> "idle"]
    /\ run = [r \in Runs |-> NoRun]
    /\ metaWrites = [r \in Runs |-> 0]

EnvEmpty ==
    /\ lib = [t \in Targets |-> [v \in VersionNames |-> NoDir]]
    /\ bin = [t \in Targets |-> <<>>]
    /\ nvenv = [t \in Targets |-> NoFile]

\* No activation script has been sourced in the shell.
ShellFresh ==
    /\ NVENV = UNSET
    /\ OLD_VIRTUAL_NVENV_PROMPT = UNSET
    /\ deactivateDefined = FALSE
    /\ sources = 0
    /\ before = [path |-> UNSET, old |-> UNSET]

ShellPlain ==
    /\ ShellFresh
    /\ PATH = Str(<<"/usr/bin">>)
    /\ PS1 = Str(<<"$ ">>)
    /\ OLD_VIRTUAL_PATH = UNSET
    /\ OLD_VIRTUAL_PS1 = UNSET

\* No function is being called on its own.
NoCall ==
    /\ call = "none"
    /\ input = [none |-> TRUE]
    /\ done = FALSE
    /\ result = [none |-> TRUE]

\* The download of one file: destPath names nothing, or a file an earlier
\* download left there.
DlInit ==
    /\ NoCall
    /\ DlIdle
    /\ destFile \in {Absent, Stale}
    /\ platform = "linux" /\ arch = "x64"
    /\ EnvIdle /\ EnvEmpty
    /\ ShellPlain

DlNext ==
    \/ \E url \in UrlKinds, openOk \in BOOLEAN : DownloadFile(url, openOk)
    \/ \E d \in Invocations, st \in {301, 302}, loc \in Locations,
          openOk \in BOOLEAN : OnRedirect(d, st, loc, openOk)
    \/ \E d \in Invocations, st \in Statuses : OnFailure(d, st)
    \/ \E d \in Invocations, total \in 0..MaxBody : OnOk(d, total)
    \/ \E d \in Invocations : OnData(d)
    \/ \E d \in Invocations : OnEnd(d)
    \/ \E d \in Invocations : OnFinish(d)
    \/ \E d \in Invocations : OnAborted(d)
    \/ \E d \in Invocations : OnUnheard(d)
    \/ \E d \in Invocations : OnRequestError(d)
    \/ \E d \in Invocations : OnFileError(d)

SpecDownload == DlInit /\ [][DlNext]_vars

\* The event loop runs a listener whose event is pending, and a connection
\* that is still up delivers the body and its end.  Errors and early closes
\* are the network's and the disk's to choose.
DlFairness ==
    \A d \in Invocations :
        /\ WF_vars(OnData(d))
        /\ WF_vars(OnEnd(d))
        /\ WF_vars(OnFinish(d))

SpecDownloadLive == SpecDownload /\ DlFairness

\* venvA holds an environment of version 1 that an earlier build made, with
\* a file added to its install directory since; venvB holds nothing.
EarlierEnv ==
    /\ lib = [t \in Targets |-> [v \in VersionNames |->
                 IF t = "venvA" /\ v = <<"1">>
                 THEN Dir(ArchiveFiles(v, platform) \cup {Stray})
                 ELSE NoDir]]
    /\ bin = [t \in Targets |->
                 IF t = "venvA"
                 THEN CreateActivateScripts(
                          (<<"node">> :> Symlink(<<"1">>, <<"node">>))
                          @@ (<<"npm">> :> Symlink(<<"1">>, <<"npm">>)))
                 ELSE <<>>]
    /\ nvenv = [t \in Targets |->
                   IF t = "venvA"
                   THEN [exists |-> TRUE, version |-> <<"1">>,
                         platform |-> platform, arch |-> arch]
                   ELSE NoFile]

EnvInit ==
    /\ NoCall
    /\ \E h \in Hosts : platform = h[1] /\ arch = h[2]
    /\ EnvIdle
    /\ IF platform = "linux" THEN EarlierEnv ELSE EnvEmpty
    /\ DlIdle /\ destFile = Absent
    /\ ShellPlain

EnvStep ==
    \/ \E r \in Runs : DownloadResolved(r)
    \/ \E r \in Runs, cleaned \in BOOLEAN : DownloadRejected(r, cleaned)
    \/ \E r \in Runs, tick \in BOOLEAN, toolOk \in BOOLEAN :
          ExtractArchive(r, tick, toolOk)
    \/ \E r \in Runs, nodeDir \in VersionNames, copyOk \in BOOLEAN :
          Install(r, nodeDir, copyOk)
    \/ \E r \in Runs, canLink \in BOOLEAN : Expose(r, canLink)
    \/ \E r \in Runs : WriteScripts(r)
    \/ \E r \in Runs : WriteMetadata(r)
    \/ \E r \in Runs, unlinkOk \in BOOLEAN : Cleanup(r, unlinkOk)
    \/ \E r \in Runs : StepThrows(r)
    \/ \E r \in Runs : Exit(r)

\* Builds run one after the other.
BuildNext ==
    \/ \E r \in Runs, version \in Versions, envPath \in Targets :
          BeginAlone(r, version, envPath)
    \/ EnvStep

SpecBuild == EnvInit /\ [][BuildNext]_vars

\* Builds into different target paths run side by side.
ConcurrentNext ==
    \/ \E r \in Runs, version \in Versions, envPath \in Targets :
          BeginBeside(r, version, envPath)
    \/ EnvStep

SpecConcurrent == EnvInit /\ [][ConcurrentNext]_vars

ShellInit ==
    /\ NoCall
    /\ ShellFresh
    /\ \E p \in PathValues, prompt \in PromptValues, py \in BOOLEAN :
          IF py
          THEN /\ PATH = Str(<<PyBin, ":">> \o p)
               /\ OLD_VIRTUAL_PATH = Str(p)
               /\ PS1 = Str(<<"(py) ">> \o prompt)
               /\ OLD_VIRTUAL_PS1 = Str(prompt)
          ELSE /\ PATH = Str(p)
               /\ OLD_VIRTUAL_PATH = UNSET
               /\ PS1 = Str(prompt)
               /\ OLD_VIRTUAL_PS1 = UNSET
    /\ DlIdle /\ destFile = Absent
    /\ platform = "linux" /\ arch = "x64"
    /\ EnvIdle /\ EnvEmpty

ShellNext ==
    \/ \E t \in Targets : Source(t)
    \/ Deactivate

SpecShell == ShellInit /\ [][ShellNext]_vars

\* One function is called once, on arguments and a host drawn here.
CallInit ==
    /\ done = FALSE
    /\ result = [none |-> TRUE]
    /\ \/ InfoInput
       \/ ExtractInput
       \/ FindInput
       \/ ParseInput
       \/ SymlinkInput
    /\ DlIdle /\ destFile = Absent
    /\ EnvIdle /\ EnvEmpty
    /\ ShellPlain

CallNext ==
    \/ CallGetNodeDownloadInfo
    \/ CallExtractArchive
    \/ CallFindNodeDirectory
    \/ CallParseArgs
    \/ CallCreateSymlink

SpecCall == CallInit /\ [][CallNext]_vars

\* A fish shell, started with some PATH, in which the activation scripts of
\* the targets are sourced and deactivate is called.
FishInit ==
    /\ call = "fish"
    /\ done = FALSE
    /\ \E path \in FishPaths, venv \in VirtualEnvs :
          /\ input = [PATH |-> Str(path), VIRTUAL_ENV |-> venv]
          /\ result = FishShell(path, venv)
    /\ platform = "linux" /\ arch = "x64"
    /\ DlIdle /\ destFile = Absent
    /\ EnvIdle /\ EnvEmpty
    /\ ShellPlain

FishNext ==
    \/ \E t \in Targets : FishSource(t)
    \/ \E nondestructive \in BOOLEAN : FishCallDeactivate(nondestructive)

SpecFish == FishInit /\ [][FishNext]_vars

(***************************************************************************)
(* Claims about downloadFile                                               *)
(***************************************************************************)
\* The invocation whose response is the last of the redirect chain.
Last == depth

\* C2: once the promise returned by downloadFile has rejected (and no
\* exception has escaped a callback), no file is left at the destination
\* path.
NoPartialFileOnError ==
    (promise[0].state = "rejected" /\ ~crashed) => ~destFile.exists

\* C3: when a response whose status is neither 200 nor a 301/302 redirect
\* reaches a download whose promise is still pending, the promise is rejected
\* with the download-failed error carrying that status and the destination
\* path names no file; it names none for as long as the promise carries
\* that error.
FailureStep(d) ==
    /\ req[d] = "sent"
    /\ req'[d] = "responded"
    /\ status'[d] \notin {200, 301, 302}
    /\ promise[0].state = "pending"

DownloadFailedOnStatus ==
    /\ [][\A d \in Invocations :
             FailureStep(d) =>
                /\ promise'[0] = Rejected("HTTP", status'[d])
                /\ ~destFile'.exists
                /\ ~crashed']_vars
    /\ [](promise[0].err = "HTTP" =>
             /\ ~destFile.exists
             /\ promise[0].code = status[Last]
             /\ status[Last] \notin {200, 301, 302})

DownloadFailedWitness ==
    /\ promise[0] = Rejected("HTTP", 404)
    /\ status[0] = 404
    /\ ~destFile.exists

\* C4: after a redirect the outer promise settles with exactly the outcome of
\* the redirected fetch, and a redirect chain whose last response is a 200
\* that has been received and written in full resolves with the destination
\* file present and holding that response's body.
ChainCompleted ==
    /\ Last > 0
    /\ status[Last] = 200
    /\ req[Last] = "ended"
    /\ file[Last] = "closed"

RedirectOutcome ==
    /\ \A d \in Invocations :
          (d < Last /\ promise[d + 1].state # "pending")
             => promise[d] = promise[d + 1]
    /\ ChainCompleted =>
          /\ promise[0] = Resolved
          /\ destFile = [exists |-> TRUE, owner |-> Last,
                         len |-> downloadedBytes[Last]]

\* C5: at the moment downloadFile's promise resolves, the destination file
\* exists, was written by the invocation that received the final response,
\* and, when that response declared a content length, has exactly that size.
ResolvedFileComplete ==
    [][(promise[0].state # "resolved" /\ promise'[0].state = "resolved") =>
          /\ destFile'.exists
          /\ destFile'.owner = Last
          /\ destFile'.len = downloadedBytes[Last]
          /\ totalBytes[Last] # 0 => destFile'.len = totalBytes[Last]]_vars

ResolvedFileCompleteWitness ==
    /\ promise[0] = Resolved
    /\ totalBytes[Last] = MaxBody
    /\ destFile = [exists |-> TRUE, owner |-> Last, len |-> MaxBody]

\* The transfer of a 200 body was cut before the body was complete: by a
\* socket error, or by the connection closing early.
TransferCut(d) ==
    /\ status[d] = 200
    /\ req[d] \in {"errored", "aborted"}
    /\ ~crashed

\* C22: when the connection fails after a 200 response has started streaming
\* and before its body is complete, the promise of downloadFile is eventually
\* rejected, with the write stream closed and no file at the destination.
TransferFailureRejects ==
    \A d \in Invocations :
        TransferCut(d) ~>
            /\ promise[0].state = "rejected"
            /\ file[d] \in {"closed", "errored"}
            /\ ~destFile.exists

\* Every response so far was a redirect that could be followed, and the
\* newest request is under way with nothing gone wrong.
OnlyRedirects ==
    /\ Last >= 0
    /\ ~crashed
    /\ \A k \in 0..(Last - 1) : status[k] \in {301, 302} /\ req[k] = "responded"
    /\ req[Last] = "sent"
    /\ file[Last] = "open"

\* The fetch of the last URL of a chain is over: it was refused with a status
\* that is neither 200 nor a redirect, its request failed, or its 200 body
\* was received and written to the end.
ChainOver ==
    /\ Last >= 0
    /\ \/ status[Last] \notin {0, 200, 301, 302}
       \/ req[Last] = "errored"
       \/ status[Last] = 200 /\ req[Last] = "ended" /\ file[Last] = "closed"

MissingLocationRejects ==
    [][\A d \in Invocations :
          (req[d] = "local" /\ req'[d] # "local") =>
              /\ promise'[0].state = "rejected"
              /\ ~destFile'.exists
              /\ ~crashed']_vars

\* C27: every promise of downloadFile settles at most once, and once the
\* write stream has finished and the promise has resolved, no later event
\* removes or shortens the destination file.
CompletedDownloadKept ==
    /\ [][\A d \in Invocations :
             promise[d].state # "pending" => promise'[d] = promise[d]]_vars
    /\ [][(promise[0] = Resolved /\ file[Last] = "closed")
             => destFile' = destFile]_vars

(***************************************************************************)
(* Claims about createEnvironment                                          *)
(***************************************************************************)
\* C1: whenever createEnvironment(version, target) resolves, the target holds
\* bin/activate, bin/activate.fish, the install directory lib/node-v<n> and a
\* .nvenv whose version field is n, where n is the requested version without
\* its leading "v".
EnvironmentComplete ==
    \A r \in Runs : pc[r] = "resolved" =>
        LET t == run[r].envPath
            requested == run[r].version
            n == IF Head(requested) = "v" THEN Tail(requested) ELSE requested
        IN /\ <<"activate">> \in DOMAIN bin[t]
           /\ <<"activate", ".fish">> \in DOMAIN bin[t]
           /\ n \in DOMAIN lib[t]
           /\ lib[t][n].exists
           /\ nvenv[t].exists
           /\ nvenv[t].version = n

EnvironmentCompleteWitness ==
    \E r \in Runs :
        /\ pc[r] = "resolved"
        /\ run[r].version = <<"v", "1">>
        /\ nvenv[run[r].envPath].version = <<"1">>
        /\ lib[run[r].envPath][<<"1">>].exists

ConcurrentBuildsIndependent ==
    \A r \in Runs : pc[r] = "rejected" => run[r].own

\* C8: a run writes .nvenv at most once, and a run that ends in failure has
\* not written it.
MetadataOnlyOnSuccess ==
    \A r \in Runs :
        /\ metaWrites[r] <= 1
        /\ pc[r] = "rejected" => metaWrites[r] = 0

\* C9: once createBinSymlinks has returned, bin/ holds an entry under the
\* original name of every file of the executable directory that is
\* classified as executable.
ExposedUnderOriginalName ==
    \A r \in Runs : pc[r] = "scripts" =>
        LET t == run[r].envPath
            files == lib[t][run[r].info.version].files
        IN \A name \in files :
              IsExposed(name, files, platform) => name \in DOMAIN bin[t]

\* C15: on a host whose platform is not darwin, linux or win32 the build
\* rejects with UnsupportedPlatform, otherwise on one whose architecture is
\* not x64 or arm64 with UnsupportedArchitecture; it rejects at its first
\* step, with no directory of the target created and no download started.
UnsupportedHost ==
    platform \notin {"darwin", "linux", "win32"} \/ arch \notin {"x64", "arm64"}

UnsupportedHostFailsFirst ==
    /\ [][\A r \in Runs : (UnsupportedHost /\ pc[r] = "idle" /\ pc'[r] # "idle") =>
              /\ pc'[r] = "rejected"
              /\ run'[r].error = IF platform \notin {"darwin", "linux", "win32"}
                                 THEN "UnsupportedPlatform"
                                 ELSE "UnsupportedArchitecture"
              /\ UNCHANGED <<envDirs, lib, bin, nvenv, tmpArchive, tmpExtract>>]_vars
    /\ [](UnsupportedHost =>
              /\ \A r \in Runs : pc[r] \in {"idle", "rejected", "exited"}
              /\ \A t \in Targets : envDirs[t] = {}
              /\ \A v \in VersionNames : ~tmpArchive[v].exists)

UnsupportedHostFailsFirstWitness ==
    \E r \in Runs :
        /\ platform = "freebsd"
        /\ arch = "ia32"
        /\ pc[r] = "rejected"
        /\ run[r].error = "UnsupportedPlatform"
        /\ envDirs[run[r].envPath] = {}

\* C20: a build goes through resolve and skeleton, fetch, extract, locate and
\* install, expose, activation scripts, metadata, cleanup in that order, one
\* step at a time; a step that fails ends the build; each part of the disk is
\* written by its own step only.
StepOrder ==
    <<"idle", "download", "extract", "locate", "expose", "scripts", "metadata",
      "cleanup", "resolved">>

Moved(r, from) == pc[r] \in from /\ pc'[r] # pc[r]

StepsInOrder ==
    [][/\ \A r \in Runs : pc'[r] # pc[r] =>
              \/ \E i \in 1..(Len(StepOrder) - 1) :
                    pc[r] = StepOrder[i] /\ pc'[r] = StepOrder[i + 1]
              \/ \E i \in 1..(Len(StepOrder) - 1) :
                    pc[r] = StepOrder[i] /\ pc'[r] = "rejected"
              \/ pc[r] \in {"resolved", "rejected"} /\ pc'[r] = "exited"
       /\ envDirs' # envDirs => \E r \in Runs : Moved(r, {"idle"})
       /\ tmpArchive' # tmpArchive =>
              \E r \in Runs : Moved(r, {"idle", "download", "cleanup"})
       /\ tmpExtract' # tmpExtract =>
              \E r \in Runs : Moved(r, {"extract", "locate", "cleanup"})
       /\ lib' # lib => \E r \in Runs : Moved(r, {"locate"})
       /\ bin' # bin => \E r \in Runs : Moved(r, {"expose", "scripts"})
       /\ nvenv' # nvenv => \E r \in Runs : Moved(r, {"metadata"})]_vars

StepsInOrderWitness ==
    \E r \in Runs :
        /\ pc[r] = "resolved"
        /\ metaWrites[r] = 1
        /\ nvenv[run[r].envPath].exists
        /\ ~tmpArchive[run[r].info.version].exists

\* The errors of the steps that follow the fetch, the cleanup left out.
LaterStepErrors ==
    {"ArchiveNotFound", "ExtractionFailed", "InstallDirectoryNotFound",
     "CopyFailed", "EIO"}

\* C21: once a build that reached the fetch step has ended, in success or in
\* the failure of a later step, its temporary archive and its temporary
\* extraction directory are gone; and no build ends in failure with an error
\* of the cleanup itself.
TemporariesRemoved ==
    \A r \in Runs :
        /\ (pc[r] = "resolved"
              \/ (pc[r] = "rejected" /\ run[r].error \in LaterStepErrors)) =>
               /\ ~tmpArchive[run[r].info.version].exists
               /\ ~tmpExtract[run[r].extractDir].exists
        /\ pc[r] = "rejected" => run[r].error \notin {"EPERM", "ENOENT"}

\* C26: once createBinSymlinks has returned, every source executable has an
\* entry of bin/ of its own that forwards to it (no two sources were written
\* to one path), and an entry that bears the name of a source executable
\* forwards to that source.
ExposureInjective ==
    \A r \in Runs : pc[r] = "scripts" =>
        LET t == run[r].envPath
            v == run[r].info.version
            files == lib[t][v].files
        IN \A name \in files :
              IsExposed(name, files, platform) =>
                 /\ \E link \in DOMAIN bin[t] :
                       /\ bin[t][link].kind \in {"symlink", "wrapper"}
                       /\ bin[t][link].ver = v
                       /\ bin[t][link].src = name
                 /\ name \in DOMAIN bin[t] =>
                       /\ bin[t][name].ver = v
                       /\ bin[t][name].src = name

\* Every build that has ended before went through to the end: it wrote its
\* metadata and removed its temporary archive.
EarlierBuildsSucceeded ==
    /\ \A o \in Runs : pc[o] = "exited" => metaWrites[o] = 1
    /\ \A v \in VersionNames : ~tmpArchive[v].exists

\* C28: once a build into a target has resolved, the builds before it
\* having succeeded, every entry of bin/ that
\* exposes an executable refers to a file of lib/node-v<V>, V being the
\* version of that build and the one recorded in .nvenv: no entry of an
\* earlier build of another version is left.
ExposureOfLatestBuild ==
    \A r \in Runs : (pc[r] = "resolved" /\ EarlierBuildsSucceeded) =>
        LET t == run[r].envPath
        IN /\ nvenv[t].version = run[r].info.version
           /\ \A link \in DOMAIN bin[t] :
                 bin[t][link].kind \in {"symlink", "wrapper"} =>
                    bin[t][link].ver = nvenv[t].version

(***************************************************************************)
(* Claims about the activation script                                      *)
(***************************************************************************)
\* C10: sourcing bin/activate and then calling deactivate leaves PATH as it
\* was before the script was sourced.
ActivateDeactivateRestoresPath ==
    [][(deactivateDefined /\ ~deactivateDefined') => PATH' = before.path]_vars

\* An environment is active in the shell.
Active == deactivateDefined /\ NVENV.set

\* How many parts of the string s are among the parts in S.
Times(s, S) == Cardinality({i \in 1..Len(s) : s[i] \in S})

\* C30: however many times bin/activate is sourced in a row, PATH holds one
\* <target>/bin prefix and PS1 one "(nvenv) " prefix; a sourcing that finds
\* an environment active leaves what was saved at the first one, and the
\* deactivate that follows puts PATH and PS1 back to the values saved and
\* unsets NVENV.
ActivationDoesNotStack ==
    /\ [](Active =>
             /\ Times(PATH.val, {BinOf(t) : t \in Targets}) = 1
             /\ Times(PS1.val, {"(nvenv) "}) = 1)
    /\ [][(Active /\ sources' = sources + 1) =>
             /\ OLD_VIRTUAL_PATH' = OLD_VIRTUAL_PATH
             /\ OLD_VIRTUAL_NVENV_PROMPT' = OLD_VIRTUAL_NVENV_PROMPT]_vars
    /\ [][(Active /\ ~deactivateDefined') =>
             /\ PATH' = Str(OLD_VIRTUAL_PATH.val)
             /\ PS1' = Str(OLD_VIRTUAL_NVENV_PROMPT.val)
             /\ NVENV' = UNSET]_vars

\* C25: in fish, after activate.fish is sourced NVENV is the target,
\* <target>/bin is the first element of PATH and fish_prompt is the
\* override; when deactivate is then called, PATH is what it was before the
\* script was sourced, NVENV is unset, fish_prompt is the original function
\* again with _old_fish_prompt gone, and deactivate is gone unless it was
\* called with nondestructive.
FishActivateDeactivate ==
    /\ [](call = "fish" /\ result.inRow > 0 =>
             /\ result.NVENV.set
             /\ result.PATH.val # <<>>
             /\ Head(result.PATH.val) = BinOf(result.NVENV.val[1])
             /\ result.fish_prompt = "override")
    /\ [][(call = "fish" /\ result.inRow = 1 /\ result'.inRow = 0) =>
             /\ result'.PATH = result.pathBefore
             /\ result'.NVENV = UNSET
             /\ result'.fish_prompt = "original"
             /\ result'.old_fish_prompt = "none"
             /\ result'.deactivate = result'.kept]_vars

(***************************************************************************)
(* Claims about getNodeDownloadInfo                                        *)
(***************************************************************************)
InfoReturned == call = "getNodeDownloadInfo" /\ done /\ result.error = ""

IsPrefix(p, q) == Len(p) <= Len(q) /\ SubSeq(q, 1, Len(p)) = p

\* The places of q at which p starts.
Occurrences(p, q) ==
    Cardinality({i \in 1..(Len(q) - Len(p) + 1) : SubSeq(q, i, i + Len(p) - 1) = p})

\* The requested version without its leading "v".
RequestedWithoutV ==
    IF Len(input.version) > 0 /\ Head(input.version) = "v"
    THEN Tail(input.version) ELSE input.version

\* The configured base: NVENV_MIRROR when it holds a value, the default host
\* otherwise.
ConfiguredBase ==
    IF input.mirror.set /\ input.mirror.val # <<>>
    THEN input.mirror.val ELSE <<"https://nodejs.org/dist">>

ImpliedExtension == IF platform = "win32" THEN "zip" ELSE "tar.gz"

\* C11, as stated: on every supported host and for every version string the
\* URL begins with the configured base, holds the normalized version exactly
\* once and ends in the extension the platform implies.
UrlHoldsVersionOnce ==
    InfoReturned =>
        /\ IsPrefix(ConfiguredBase, result.info.url)
        /\ Occurrences(RequestedWithoutV, result.info.url) = 1
        /\ result.info.url[Len(result.info.url)] = ImpliedExtension

\* C11, amended: the URL begins with the configured base, holds the
\* normalized version in two places, the directory v<version> right after
\* the base and the file name node-v<version>-..., and ends in the extension
\* the platform implies.
UrlHoldsVersionTwice ==
    InfoReturned =>
        /\ IsPrefix(ConfiguredBase \o <<"/", "v">> \o RequestedWithoutV \o <<"/">>,
                    result.info.url)
        /\ Occurrences(<<"/", "node-", "v">> \o RequestedWithoutV \o <<"-">>,
                       result.info.url) >= 1
        /\ RequestedWithoutV # <<>> =>
              Occurrences(RequestedWithoutV, result.info.url) >= 2
        /\ result.info.url[Len(result.info.url)] = ImpliedExtension

UrlHoldsVersionTwiceWitness ==
    /\ InfoReturned
    /\ platform = "win32"
    /\ input.version = <<"v", "1", "8">>
    /\ input.mirror = UNSET
    /\ Occurrences(<<"1", "8">>, result.info.url) = 2
    /\ result.info.url[Len(result.info.url)] = "zip"

PrefixedAndUnprefixedAgree ==
    (InfoReturned /\ (input.version = <<>> \/ Head(input.version) # "v")) =>
        LET prefixed == DownloadInfo(<<"v">> \o input.version, platform, arch,
                                     input.mirror)
        IN /\ result.info.version = input.version
           /\ prefixed.version = input.version
           /\ prefixed.url = result.info.url

PrefixedAndUnprefixedAgreeWitness ==
    /\ InfoReturned
    /\ input.version = <<"1", "8">>
    /\ result.info.version = <<"1", "8">>
    /\ DownloadInfo(<<"v", "1", "8">>, platform, arch, input.mirror).url
           = result.info.url

\* C14, as stated: for every version string the returned version does not
\* begin with "v", so normalizing it again changes nothing.
VersionNeverKeepsV ==
    InfoReturned =>
        /\ result.info.version = <<>> \/ Head(result.info.version) # "v"
        /\ NormalizeVersion(result.info.version) = result.info.version

\* C14, amended: for every version string that does not begin with two "v",
\* the returned version does not begin with "v", and normalizing it again
\* changes nothing.
VersionKeepsNoSingleV ==
    (InfoReturned /\ ~IsPrefix(<<"v", "v">>, input.version)) =>
        /\ result.info.version = <<>> \/ Head(result.info.version) # "v"
        /\ NormalizeVersion(result.info.version) = result.info.version

VersionKeepsNoSingleVWitness ==
    /\ InfoReturned
    /\ input.version = <<"v", "1", "8">>
    /\ result.info.version = <<"1", "8">>
(***************************************************************************)
(* Claims about extractArchive                                             *)
(***************************************************************************)

Extracted == call = "extractArchive" /\ done

\* The kind of the error extractArchive threw: what its message begins with.
ErrorKind(message) ==
    IF message = <<>> THEN ""
    ELSE IF Head(message) = "Archive file not found: " THEN "ArchiveNotFound"
    ELSE IF Head(message) = "Unsupported archive format: "
    THEN "UnsupportedArchiveFormat"
    ELSE "ExtractionFailed"

\* C16: extractArchive on an archive path that does not exist fails with
\* 'Archive file not found'; it has not made the destination directory and
\* has run no external utility.
MissingArchiveFailsEarly ==
    (Extracted /\ ~input.archive.exists) =>
        /\ ErrorKind(result.message) = "ArchiveNotFound"
        /\ ~result.mkdir
        /\ result.tool = "none"

MissingArchiveFailsEarlyWitness ==
    /\ Extracted
    /\ ~input.archive.exists
    /\ ~input.destExists
    /\ input.archive.name = <<"node", ".tar", ".gz">>
    /\ ErrorKind(result.message) = "ArchiveNotFound"

GzipTarOrZip(name) == ExtName(name) \in {".gz", ".zip"}

\* C17: extractArchive on an existing archive whose extension is neither
\* gzip-tar nor zip fails with the kind UnsupportedArchiveFormat, a kind
\* other than ExtractionFailed, and runs no external utility.
UnsupportedFormatIsItsOwnKind ==
    (Extracted /\ input.archive.exists /\ ~GzipTarOrZip(input.archive.name)) =>
        /\ ErrorKind(result.message) = "UnsupportedArchiveFormat"
        /\ ErrorKind(result.message) # "ExtractionFailed"
        /\ result.tool = "none"

(***************************************************************************)
(* Claims about findNodeDirectory                                          *)
(***************************************************************************)

Searched == call = "findNodeDirectory" /\ done

\* The places in a listing of the directories whose name begins with node-v.
NodeDirs(entries) ==
    {i \in 1..Len(entries) :
        entries[i].kind = "dir" /\ Head(entries[i].name) = "node-v"}

\* C18: findNodeDirectory returns a directory of the listing whose name
\* begins with node-v, never a file and never a directory named otherwise;
\* of several it returns the first in listing order; when there is none it
\* fails with InstallDirectoryNotFound.
FirstNodeDirectory ==
    Searched =>
        LET entries == input.entries
        IN IF NodeDirs(entries) = {}
           THEN result.error = "InstallDirectoryNotFound"
           ELSE /\ result.error = ""
                /\ \E i \in NodeDirs(entries) :
                      /\ result.dir = entries[i].name
                      /\ \A j \in NodeDirs(entries) : i <= j
                /\ \A i \in 1..Len(entries) :
                      entries[i].name = result.dir =>
                          /\ entries[i].kind = "dir"
                          /\ Head(entries[i].name) = "node-v"

FirstNodeDirectoryWitness ==
    /\ Searched
    /\ input.entries = <<[name |-> <<"node-v", "1">>, kind |-> "file"],
                         [name |-> <<"other">>, kind |-> "dir"],
                         [name |-> <<"node-v", "2">>, kind |-> "dir"]>>
    /\ result.error = ""
    /\ result.dir = <<"node-v", "2">>

(***************************************************************************)
(* Claims about parseArgs                                                  *)
(***************************************************************************)

Parsed == call = "parseArgs" /\ done

\* The places of the --node=<version> arguments and of the arguments that
\* do not begin with a dash.
NodePlaces(args) ==
    {i \in 1..Len(args) : args[i].eq /\ args[i].head = "--node"}
PathPlaces(args) ==
    {i \in 1..Len(args) : ~args[i].eq /\ args[i].head \in {"venvA", "venvB"}}

\* The text after "--node=" as it was written: its pieces with the "="
\* between them.
RECURSIVE Written(_)
Written(pieces) ==
    IF Len(pieces) = 1 THEN pieces[1]
    ELSE pieces[1] \o <<"=">> \o Written(Tail(pieces))

\* args with the arguments at i and j exchanged.
Exchanged(args, i, j) ==
    [k \in 1..Len(args) |->
        IF k = i THEN args[j] ELSE IF k = j THEN args[i] ELSE args[k]]

\* C19: for arguments holding at most one --node=<version> and at most one
\* path, parseArgs returns as version the value after --node= as it was
\* written, as envPath the argument without a leading dash, each null when
\* missing, whatever the order of the arguments and whatever other dashed
\* arguments stand among them; help is set exactly when -h or --help is
\* among the arguments.
ParsedAsWritten ==
    Parsed =>
        LET args == input.args
        IN /\ result.help =
                 (\E i \in 1..Len(args) : args[i] \in {Word("-h"), Word("--help")})
           /\ (Cardinality(NodePlaces(args)) <= 1 /\ Cardinality(PathPlaces(args)) <= 1) =>
                 /\ NodePlaces(args) = {} => result.version = UNSET
                 /\ \A i \in NodePlaces(args) : result.version = Str(Written(args[i].value))
                 /\ PathPlaces(args) = {} => result.envPath = UNSET
                 /\ \A i \in PathPlaces(args) : result.envPath = Str(<<args[i].head>>)
                 /\ \A i, j \in 1..Len(args) :
                       ParseArgs(Exchanged(args, i, j)) = result

(***************************************************************************)
(* Claims about createSymlink                                              *)
(***************************************************************************)

\* C24: when the symbolic link cannot be created, createSymlink does not
\* throw: the target name, with ".cmd" appended on win32 unless it ends in
\* .exe, .cmd, .bat or .ps1 and unchanged elsewhere, then holds a forwarding
\* script for the source, made executable (0755) except on win32.
SymlinkFailureFallsBack ==
    (call = "createSymlink" /\ done /\ result.linkFailed) =>
        LET name == input.name
            target == IF /\ platform = "win32"
                         /\ ExtName(name) \notin {".exe", ".cmd", ".bat", ".ps1"}
                      THEN Append(name, ".cmd")
                      ELSE name
        IN /\ ~result.threw
           /\ target \in DOMAIN result.bin
           /\ result.bin[target] = Wrapper(input.version, name)
           /\ result.mode = IF platform = "win32" THEN "" ELSE "0755"

====
